---- MODULE Spec2Model ----
(***************************************************************************)
(* Model of src/src/check_genomes.py: main() parses one species name,      *)
(* check_genome_count() runs the NCBI `datasets` tool once as a child      *)
(* process and classifies its outcome into a count or None, and main()     *)
(* turns that into the exit status.                                        *)
(*                                                                         *)
(* Texts are sequences of one-character strings.  The text written by the  *)
(* tool on stdout is a sequence over " " (whitespace), "x" (a character    *)
(* that is not JSON) and "J" (the serialisation of the JSON document       *)
(* carried next to the text).  Python values and decoded JSON values are   *)
(* records [t, n, s]: t is the Python type, n the number, s the string.    *)
(***************************************************************************)
EXTENDS Integers, Sequences, FiniteSets

\* ---------------------------------------------------------------- bounds
\* longest species name given on the command line
MaxNameLen == 3
\* longest JSON string stored under total_count
MaxStrLen == 2
\* largest magnitude of a JSON number stored under total_count
MaxCount == 1

\* ---------------------------------------------------------------- texts
NameChars == {"E", " ", "'"}
StrChars == {"5", "-", "a", " "}

TextsUpTo(chars, n) == UNION {[1..k -> chars] : k \in 0..n}

IsSpace(c) == c = " "

RECURSIVE LStrip(_)
LStrip(t) == IF t # <<>> /\ IsSpace(Head(t)) THEN LStrip(Tail(t)) ELSE t

RECURSIVE RStrip(_)
RStrip(t) ==
  IF t # <<>> /\ IsSpace(t[Len(t)]) THEN RStrip(SubSeq(t, 1, Len(t) - 1)) ELSE t

\* str.strip()
Strip(t) == RStrip(LStrip(t))

\* str.split(): the whitespace-separated words of t
RECURSIVE SplitWs(_, _)
SplitWs(t, word) ==
  IF t = <<>> THEN (IF word = <<>> THEN <<>> ELSE <<word>>)
  ELSE IF IsSpace(Head(t))
       THEN (IF word = <<>> THEN <<>> ELSE <<word>>) \o SplitWs(Tail(t), <<>>)
       ELSE SplitWs(Tail(t), Append(word, Head(t)))

\* ' '.join(tokens)
RECURSIVE JoinSp(_)
JoinSp(tokens) ==
  IF tokens = <<>> THEN <<>>
  ELSE IF Len(tokens) = 1 THEN tokens[1]
  ELSE tokens[1] \o <<" ">> \o JoinSp(Tail(tokens))

\* ---------------------------------------------------------------- values
Val(t, n, s) == [t |-> t, n |-> n, s |-> s]
None == Val("NoneType", 0, <<>>)
PyInt(n) == Val("int", n, <<>>)
Bool(b) == Val("bool", IF b THEN 1 ELSE 0, <<>>)
Str(s) == Val("str", 0, s)
\* a finite float, in halves: Float(3) is 1.5
Float(h) == Val("float", h, <<>>)
NaN == Val("nan", 0, <<>>)
Inf(sign) == Val("inf", sign, <<>>)
List(len) == Val("list", len, <<>>)
Dict == Val("dict", 0, <<>>)
\* a key that the JSON object does not have
Absent == Val("absent", 0, <<>>)

\* isinstance(v, int): bool is a subclass of int
IsInstanceInt(v) == v.t \in {"int", "bool"}

\* ---------------------------------------------------------------- exceptions
NoExc == [cls |-> "none", msg |-> "none"]
Exc(cls, msg) == [cls |-> cls, msg |-> msg]

Parent(cls) ==
  CASE cls = "JSONDecodeError" -> "ValueError"
    [] cls = "UnicodeDecodeError" -> "ValueError"
    [] cls = "ValueError" -> "Exception"
    [] cls = "TypeError" -> "Exception"
    [] cls = "AttributeError" -> "Exception"
    [] cls = "OverflowError" -> "ArithmeticError"
    [] cls = "ArithmeticError" -> "Exception"
    [] cls = "KeyError" -> "LookupError"
    [] cls = "LookupError" -> "Exception"
    [] cls = "FileNotFoundError" -> "OSError"
    [] cls = "PermissionError" -> "OSError"
    [] cls = "OSError" -> "Exception"
    [] cls = "Exception" -> "BaseException"
    [] OTHER -> "object"

RECURSIVE IsSubclass(_, _)
IsSubclass(cls, base) ==
  IF cls = base THEN TRUE
  ELSE IF cls \in {"BaseException", "object"} THEN FALSE
  ELSE IsSubclass(Parent(cls), base)

\* ---------------------------------------------------------------- evaluation results
Line(tag, arg) == [tag |-> tag, arg |-> arg]

Return(v, err, out) ==
  [kind |-> "return", val |-> v, exc |-> NoExc, err |-> err, out |-> out]
Raise(e, err, out) ==
  [kind |-> "raise", val |-> None, exc |-> e, err |-> err, out |-> out]

\* ---------------------------------------------------------------- the tool's outcomes
\* json.loads() of a text gives a dict with some of the keys total_count,
\* count and reports, or a value of another type
Doc(t, tc, cnt, rep) == [t |-> t, total_count |-> tc, count |-> cnt, reports |-> rep]
NoDoc == Doc("none", Absent, Absent, Absent)

TotalCountValues ==
  {PyInt(n) : n \in -MaxCount..MaxCount}
    \cup {Bool(TRUE), Bool(FALSE)}
    \cup {Str(s) : s \in TextsUpTo(StrChars, MaxStrLen)}
    \cup {Float(h) : h \in -(2 * MaxCount + 1)..(2 * MaxCount + 1)}
    \cup {NaN, Inf(1), Inf(-1), None, List(0), Dict}

Docs ==
  {Doc("dict", tc, Absent, Absent) : tc \in TotalCountValues}
    \cup {Doc("dict", Absent, cnt, rep) :
            cnt \in {Absent, PyInt(0), PyInt(1)},
            rep \in {Absent, List(0), List(1)}}
    \cup {Doc("dict", PyInt(1), PyInt(1), List(1))}
    \cup {Doc(t, Absent, Absent, Absent) : t \in {"list", "NoneType", "str", "int"}}

\* stdout of the tool: blank texts, texts that are not JSON, one JSON
\* document with or without surrounding whitespace, a document followed by
\* more text
OutTexts ==
  {<<>>, <<" ">>, <<" ", " ">>, <<"x">>, <<" ", "x">>,
   <<"J">>, <<" ", "J", " ">>, <<"J", "x">>, <<"J", "J">>}

HasDoc(text) == \E i \in DOMAIN text : text[i] = "J"

Stdouts ==
  {[text |-> t, doc |-> d] : t \in {u \in OutTexts : HasDoc(u)}, d \in Docs}
    \cup {[text |-> t, doc |-> NoDoc] : t \in {u \in OutTexts : ~HasDoc(u)}}

ErrTexts == {<<"e">>, <<" ", "e", " ">>}

\* exit statuses: killed by a signal, success, failure
ReturnCodes == {-9, 0, 1}

\* what subprocess.run() can raise instead of returning
LaunchExcs ==
  {Exc("FileNotFoundError", "No such file or directory: 'datasets'"),
   Exc("PermissionError", "Permission denied: 'datasets'"),
   Exc("UnicodeDecodeError", "codec can't decode byte")}

NoResult ==
  [kind |-> "none", exc |-> NoExc, returncode |-> 0,
   stdout |-> [text |-> <<>>, doc |-> NoDoc], stderr |-> <<>>]

Outcomes ==
  {[kind |-> "completed", exc |-> NoExc, returncode |-> rc, stdout |-> o, stderr |-> e] :
     rc \in ReturnCodes, o \in Stdouts, e \in ErrTexts}
    \cup {[NoResult EXCEPT !.kind = "raised", !.exc = x] : x \in LaunchExcs}

SpeciesNames == TextsUpTo(NameChars, MaxNameLen)

\* ---------------------------------------------------------------- check_genome_count
Tok(word) == <<word>>

\* the argument vector; every token is a text, the fixed ones of one piece
Command(name) ==
  <<Tok("datasets"), Tok("summary"), Tok("genome"), Tok("taxon"), name,
    Tok("--report"), Tok("counts"), Tok("--assembly-level"), Tok("complete"),
    Tok("--assembly-source"), Tok("RefSeq")>>

\* the argument vector the child process receives: the list is handed over
\* as it is, no shell reads it.  The variant joins the list into one command
\* line and lets a shell split it into words.
ChildArgvThroughShell(cmd) == SplitWs(JoinSp(cmd), <<>>)
ChildArgv(cmd) == cmd

\* result.returncode != 0.  The variant tests result.returncode > 0.
ReturnCodePositive(rc) == rc > 0
ReturnCodeFailed(rc) == rc # 0

\* not result.stdout.strip().  The variant tests not result.stdout.
NoOutputUnstripped(stdout) == stdout.text = <<>>
NoOutput(stdout) == Strip(stdout.text) = <<>>

\* json.loads(): whitespace around the one document is skipped; anything else
\* (no document, text that is not JSON, text after the document) raises
\* JSONDecodeError
JsonLoads(stdout) ==
  IF Strip(stdout.text) = <<"J">>
  THEN [ok |-> TRUE, data |-> stdout.doc]
  ELSE [ok |-> FALSE, data |-> NoDoc]

\* dict.get(key, default)
DictGet(data, key, default) ==
  IF data[key] = Absent THEN default ELSE data[key]

Digits == {"0", "1", "2", "3", "4", "5", "6", "7", "8", "9"}

DigitValue(c) ==
  CASE c = "0" -> 0 [] c = "1" -> 1 [] c = "2" -> 2 [] c = "3" -> 3
    [] c = "4" -> 4 [] c = "5" -> 5 [] c = "6" -> 6 [] c = "7" -> 7
    [] c = "8" -> 8 [] c = "9" -> 9

RECURSIVE DecimalValue(_)
DecimalValue(ds) ==
  IF ds = <<>> THEN 0
  ELSE 10 * DecimalValue(SubSeq(ds, 1, Len(ds) - 1)) + DigitValue(ds[Len(ds)])

\* int(s) of a str: surrounding whitespace, an optional sign, decimal digits
ParseInt(s) ==
  LET body == Strip(s)
      signed == body # <<>> /\ Head(body) \in {"-", "+"}
      ds == IF signed THEN Tail(body) ELSE body
      magnitude == DecimalValue(ds)
  IN IF ds # <<>> /\ \A i \in DOMAIN ds : ds[i] \in Digits
     THEN Return(PyInt(IF signed /\ Head(body) = "-" THEN -magnitude ELSE magnitude),
                 <<>>, <<>>)
     ELSE Raise(Exc("ValueError", "invalid literal for int() with base 10"), <<>>, <<>>)

\* int(x) of a finite float, held in halves: truncation toward zero
Truncate(h) == IF h >= 0 THEN h \div 2 ELSE -((-h) \div 2)

\* int(v)
IntOf(v) ==
  CASE v.t \in {"int", "bool"} -> Return(PyInt(v.n), <<>>, <<>>)
    [] v.t = "float" -> Return(PyInt(Truncate(v.n)), <<>>, <<>>)
    [] v.t = "nan" ->
         Raise(Exc("ValueError", "cannot convert float NaN to integer"), <<>>, <<>>)
    [] v.t = "inf" ->
         Raise(Exc("OverflowError", "cannot convert float infinity to integer"),
               <<>>, <<>>)
    [] v.t = "str" -> ParseInt(v.s)
    [] OTHER ->
         Raise(Exc("TypeError", "int() argument must be a string or a real number"),
               <<>>, <<>>)

Prefixed(err, r) == [r EXCEPT !.err = err \o @]

\* try: return int(count) / except (ValueError, TypeError): return 0
ConvertCount(count) ==
  LET r == IntOf(count)
  IN IF r.kind = "raise"
        /\ (IsSubclass(r.exc.cls, "ValueError") \/ IsSubclass(r.exc.cls, "TypeError"))
     THEN Return(PyInt(0), <<Line("CouldNotConvert", <<>>)>>, <<>>)
     ELSE r

\* count = data.get('total_count', 0) and the isinstance test on it
CountOf(data) ==
  IF data.t # "dict"
  THEN Raise(Exc("AttributeError", "object has no attribute 'get'"), <<>>, <<>>)
  ELSE LET count == DictGet(data, "total_count", PyInt(0))
       IN IF IsInstanceInt(count)
          THEN Return(count, <<>>, <<>>)
          ELSE Prefixed(<<Line("WarningNotInteger", count)>>, ConvertCount(count))

\* except json.JSONDecodeError.  The variant returns 0, as the branches
\* around it do.
OnJSONDecodeErrorZero(stdout) ==
  Return(PyInt(0), <<Line("FailedToDecode", <<>>), Line("ReceivedOutput", stdout)>>, <<>>)
OnJSONDecodeError(stdout) ==
  Return(None, <<Line("FailedToDecode", <<>>), Line("ReceivedOutput", stdout)>>, <<>>)

\* truth value of a Python object
Truthy(v) ==
  CASE v.t \in {"int", "bool", "float", "list"} -> v.n # 0
    [] v.t = "str" -> v.s # <<>>
    [] v.t \in {"nan", "inf"} -> TRUE
    [] OTHER -> FALSE

\* v == 0
EqualsZero(v) == v.t \in {"int", "bool", "float"} /\ v.n = 0

\* except KeyError
OnKeyError(data) ==
  LET err == <<Line("KeyNotFound", <<>>), Line("ReceivedJSON", data)>>
  IN IF EqualsZero(DictGet(data, "count", PyInt(0)))
        /\ ~Truthy(DictGet(data, "reports", None))
     THEN Return(PyInt(0), err, <<Line("InterpretingAsZero", <<>>)>>)
     ELSE Return(None, err, <<>>)

\* the inner try statement: decode, extract, and the two handlers
ParseOutput(stdout) ==
  LET loaded == JsonLoads(stdout)
      r == IF loaded.ok
           THEN CountOf(loaded.data)
           ELSE Raise(Exc("JSONDecodeError", "Expecting value"), <<>>, <<>>)
  IN IF r.kind = "raise" /\ IsSubclass(r.exc.cls, "JSONDecodeError")
     THEN Prefixed(r.err, OnJSONDecodeError(stdout))
     ELSE IF r.kind = "raise" /\ IsSubclass(r.exc.cls, "KeyError")
     THEN Prefixed(r.err, OnKeyError(loaded.data))
     ELSE r

\* except FileNotFoundError
OnFileNotFoundError(e) ==
  Return(None, <<Line("CommandNotFound", <<>>), Line("PleaseInstall", <<>>),
                 Line("CondaHint", <<>>)>>, <<>>)

\* except Exception as e.  The variant prints the message without e.
OnExceptionNoDetail(e) ==
  Return(None, <<Line("UnexpectedError", "")>>, <<>>)
OnException(e) ==
  Return(None, <<Line("UnexpectedError", e.msg)>>, <<>>)

\* the class the last handler of the outer try statement catches.  The
\* variant catches OSError only.
CatchOSError == "OSError"
CatchAll == "Exception"

\* the handlers of the outer try statement, in order
OuterExcept(r) ==
  IF r.kind = "raise" /\ IsSubclass(r.exc.cls, "FileNotFoundError")
  THEN [OnFileNotFoundError(r.exc) EXCEPT !.err = r.err \o @, !.out = r.out \o @]
  ELSE IF r.kind = "raise" /\ IsSubclass(r.exc.cls, CatchAll)
  THEN [OnException(r.exc) EXCEPT !.err = r.err \o @, !.out = r.out \o @]
  ELSE r

\* genome_count is not None.  The variant tests the truth value of
\* genome_count.
IsTruthyCount(v) == Truthy(v)
IsNotNone(v) == v # None

\* ---------------------------------------------------------------- the program
VARIABLES pc, species_name, command, spawned, argv, result, loads, genome_count,
          raised, errlines, outlines, exit_status

vars == <<pc, species_name, command, spawned, argv, result, loads, genome_count,
          raised, errlines, outlines, exit_status>>

Init ==
  /\ pc = "main"
  /\ species_name \in SpeciesNames
  /\ command = <<>>
  /\ spawned = 0
  /\ argv = <<>>
  /\ result = NoResult
  /\ loads = 0
  /\ genome_count = None
  /\ raised = FALSE
  /\ errlines = <<>>
  /\ outlines = <<>>
  /\ exit_status = -1

\* main() parses the argument and calls check_genome_count(), which prints
\* the progress line and builds the command
Call ==
  /\ pc = "main"
  /\ outlines' = Append(outlines, Line("Checking", species_name))
  /\ command' = Command(species_name)
  /\ pc' = "run"
  /\ UNCHANGED <<species_name, spawned, argv, result, loads, genome_count,
                 raised, errlines, exit_status>>

\* subprocess.run(command, capture_output=True, text=True, check=False)
SubprocessRun ==
  /\ pc = "run"
  /\ spawned' = spawned + 1
  /\ argv' = ChildArgv(command)
  /\ \E o \in Outcomes : result' = o
  /\ pc' = "classify"
  /\ UNCHANGED <<species_name, command, loads, genome_count, raised, errlines,
                 outlines, exit_status>>

\* check_genome_count() ends: it returns r.val, or r.exc leaves it and main()
\* uncaught, and the interpreter exits with status 1 after the traceback
Finish(r) ==
  /\ errlines' = errlines \o r.err
  /\ outlines' = outlines \o r.out
  /\ IF r.kind = "return"
     THEN /\ genome_count' = r.val
          /\ pc' = "returned"
          /\ UNCHANGED <<raised, exit_status>>
     ELSE /\ raised' = TRUE
          /\ pc' = "done"
          /\ exit_status' = 1
          /\ UNCHANGED genome_count
  /\ UNCHANGED <<species_name, command, spawned, argv, result>>

\* subprocess.run() raised
LaunchFailed ==
  /\ pc = "classify"
  /\ result.kind = "raised"
  /\ UNCHANGED loads
  /\ Finish(OuterExcept(Raise(result.exc, <<>>, <<>>)))

\* if result.returncode != 0
NonZeroExit ==
  /\ pc = "classify"
  /\ result.kind = "completed"
  /\ ReturnCodeFailed(result.returncode)
  /\ UNCHANGED loads
  /\ Finish(OuterExcept(Return(None,
       <<Line("ErrorRunning", <<>>), Line("Command", JoinSp(command)),
         Line("ReturnCode", result.returncode),
         Line("Stderr", Strip(result.stderr))>>, <<>>)))

\* if not result.stdout.strip()
NoOutputReceived ==
  /\ pc = "classify"
  /\ result.kind = "completed"
  /\ ~ReturnCodeFailed(result.returncode)
  /\ NoOutput(result.stdout)
  /\ UNCHANGED loads
  /\ Finish(OuterExcept(Return(PyInt(0), <<Line("NoOutput", species_name)>>, <<>>)))

\* the JSON output is parsed
ParseJSON ==
  /\ pc = "classify"
  /\ result.kind = "completed"
  /\ ~ReturnCodeFailed(result.returncode)
  /\ ~NoOutput(result.stdout)
  /\ loads' = loads + 1
  /\ Finish(OuterExcept(ParseOutput(result.stdout)))

\* main() after check_genome_count() returned
MainExit ==
  /\ pc = "returned"
  /\ IF IsNotNone(genome_count)
     THEN /\ outlines' = Append(outlines, Line("Found", genome_count))
          /\ exit_status' = 0
     ELSE /\ outlines' = Append(outlines, Line("Failed", species_name))
          /\ exit_status' = 1
  /\ pc' = "done"
  /\ UNCHANGED <<species_name, command, spawned, argv, result, loads,
                 genome_count, raised, errlines>>

Next ==
  \/ Call
  \/ SubprocessRun
  \/ LaunchFailed
  \/ NonZeroExit
  \/ NoOutputReceived
  \/ ParseJSON
  \/ MainExit

Spec == Init /\ [][Next]_vars

\* ---------------------------------------------------------------- properties
HasLine(lines, tag) == \E i \in DOMAIN lines : lines[i].tag = tag

HasLineArg(lines, tag, arg) ==
  \E i \in DOMAIN lines : lines[i].tag = tag /\ lines[i].arg = arg

LastLine(lines) == lines[Len(lines)]

\* check_genome_count() has returned
Returned == pc \in {"returned", "done"} /\ ~raised

\* the tool ran to completion with exit status 0
ExitedZero == result.kind = "completed" /\ result.returncode = 0

\* stdout of the tool is one JSON document, a JSON object
ObjectDecoded ==
  /\ ExitedZero
  /\ Strip(result.stdout.text) = <<"J">>
  /\ result.stdout.doc.t = "dict"

\* C1: whatever the tool did, the result of check_genome_count is None or
\* an integer that is not negative.
C1_ResultNonNegativeInteger ==
  Returned =>
    \/ genome_count = None
    \/ (genome_count.t \in {"int", "bool"} /\ genome_count.n >= 0)

\* C2: exit status 0 and a JSON object without total_count: the result is 0
\* if count is present and equals 0 or if there is no reports list, and
\* None in every other case.
C2_MissingTotalCountFallback ==
  (Returned /\ ObjectDecoded /\ result.stdout.doc.total_count = Absent) =>
    LET data == result.stdout.doc
        zero == \/ (data.count # Absent /\ EqualsZero(data.count))
                \/ ~Truthy(data.reports)
    IN IF zero THEN genome_count = PyInt(0) ELSE genome_count = None

\* C3: exit status 0 and a JSON object with total_count: an integer is
\* returned as it is, a value that converts to an integer without loss is
\* returned converted, and any other value gives 0 with a warning, not None.
C3_TotalCountConversion ==
  (Returned /\ ObjectDecoded /\ result.stdout.doc.total_count # Absent) =>
    LET tc == result.stdout.doc.total_count
        parsed == ParseInt(tc.s)
    IN CASE tc.t = "int" -> genome_count = tc
         [] tc.t = "bool" -> TRUE
         [] tc.t = "str" /\ parsed.kind = "return" -> genome_count = parsed.val
         [] tc.t = "float" /\ tc.n % 2 = 0 -> genome_count = PyInt(tc.n \div 2)
         [] OTHER -> /\ genome_count = PyInt(0)
                     /\ HasLineArg(errlines, "WarningNotInteger", tc)

\* C4: the program exits 0 exactly when check_genome_count returned a count
\* (zero included) and 1 exactly when it returned None; the last line on
\* stdout is the Found line with that count on exit 0 and the Failed line on
\* exit 1.
C4_ExitStatus ==
  pc = "done" =>
    /\ exit_status = 0 <=> genome_count # None
    /\ exit_status = 1 <=> genome_count = None
    /\ exit_status = 0 => LastLine(outlines) = Line("Found", genome_count)
    /\ exit_status = 1 => LastLine(outlines) = Line("Failed", species_name)

C4_Witness ==
  /\ pc = "done"
  /\ genome_count = PyInt(0)
  /\ exit_status = 0
  /\ LastLine(outlines).tag = "Found"

\* C5: a non-zero exit status gives None whatever stdout holds, without
\* decoding it, and stderr of the program shows the command line, the exit
\* status and the stderr text of the tool (as str.strip() leaves it).
C5_NonZeroExit ==
  (pc \in {"returned", "done"} /\ result.kind = "completed" /\ result.returncode # 0) =>
    /\ ~raised
    /\ genome_count = None
    /\ loads = 0
    /\ HasLineArg(errlines, "Command", JoinSp(argv))
    /\ HasLineArg(errlines, "ReturnCode", result.returncode)
    /\ HasLineArg(errlines, "Stderr", Strip(result.stderr))

C5_Witness ==
  /\ pc = "done"
  /\ result.kind = "completed"
  /\ result.returncode < 0
  /\ result.stdout.text = <<"J">>
  /\ result.stdout.doc = Doc("dict", PyInt(1), Absent, Absent)
  /\ result.stderr = <<" ", "e", " ">>
  /\ genome_count = None
  /\ exit_status = 1

\* C6: exit status 0 with empty or whitespace-only stdout gives count 0 with
\* the advisory message, json.loads is not called, and the program exits 0.
C6_BlankOutput ==
  (pc \in {"returned", "done"} /\ ExitedZero
     /\ \A i \in DOMAIN result.stdout.text : IsSpace(result.stdout.text[i])) =>
    /\ ~raised
    /\ genome_count = PyInt(0)
    /\ HasLineArg(errlines, "NoOutput", species_name)
    /\ loads = 0
    /\ pc = "done" => exit_status = 0

C6_Witness ==
  /\ pc = "done"
  /\ ExitedZero
  /\ result.stdout.text = <<" ", " ">>
  /\ genome_count = PyInt(0)
  /\ exit_status = 0

\* C7: exit status 0 with stdout that is not blank and not a JSON document
\* gives None, never 0, and stderr of the program shows the raw stdout.
C7_MalformedJSON ==
  (pc \in {"returned", "done"} /\ ExitedZero
     /\ Strip(result.stdout.text) \notin {<<>>, <<"J">>}) =>
    /\ ~raised
    /\ genome_count = None
    /\ HasLineArg(errlines, "ReceivedOutput", result.stdout)

C7_Witness ==
  /\ pc = "done"
  /\ ExitedZero
  /\ result.stdout.text = <<"J", "x">>
  /\ genome_count = None
  /\ exit_status = 1

\* C8: when the executable is not found the result is None with the
\* missing-tool message; when the launch fails otherwise the result is None
\* with a message holding the fault's description; the program exits 1 and
\* json.loads is not called.
C8_LaunchFault ==
  (pc \in {"returned", "done"} /\ result.kind = "raised") =>
    /\ ~raised
    /\ genome_count = None
    /\ loads = 0
    /\ pc = "done" => exit_status = 1
    /\ IF result.exc.cls = "FileNotFoundError"
       THEN HasLine(errlines, "CommandNotFound")
       ELSE HasLineArg(errlines, "UnexpectedError", result.exc.msg)

C8_Witness ==
  /\ pc = "done"
  /\ result.kind = "raised"
  /\ result.exc.cls = "PermissionError"
  /\ HasLine(errlines, "UnexpectedError")
  /\ exit_status = 1

\* C9: the argument vector of the child process has eleven elements, the
\* fifth is the species name as given and the others are fixed, whatever the
\* name holds.
C9_ArgumentVector ==
  spawned > 0 =>
    /\ Len(argv) = 11
    /\ argv[5] = species_name
    /\ <<argv[1], argv[2], argv[3], argv[4]>> =
         <<<<"datasets">>, <<"summary">>, <<"genome">>, <<"taxon">>>>
    /\ <<argv[6], argv[7], argv[8], argv[9], argv[10], argv[11]>> =
         <<<<"--report">>, <<"counts">>, <<"--assembly-level">>, <<"complete">>,
           <<"--assembly-source">>, <<"RefSeq">>>>

C9_Witness ==
  /\ spawned > 0
  /\ species_name = <<"E", " ", "'">>
  /\ argv[5] = <<"E", " ", "'">>

\* C10: whatever the child-process call did, subprocess.run was called
\* once, check_genome_count returned a count or None and raised nothing, and
\* the program ends with exit status 0 or 1.
C10_NoUncaughtFault ==
  /\ ~raised
  /\ spawned <= 1
  /\ pc \in {"classify", "returned", "done"} => spawned = 1
  /\ pc \in {"returned", "done"} => (genome_count = None \/ IsInstanceInt(genome_count))
  /\ pc = "done" => exit_status \in {0, 1}

C10_Witness ==
  /\ pc = "done"
  /\ ExitedZero
  /\ result.stdout.text = <<"J">>
  /\ result.stdout.doc.t = "list"
  /\ spawned = 1
  /\ genome_count = None
  /\ exit_status = 1

====
